---- MODULE Spec2Model ----
(***************************************************************************)
(* Wordware MCP server: the template-driven tool server (ReActTool.py,     *)
(* tools.py) and the page-creation server (wordware_mcp.py).               *)
(*                                                                         *)
(* Text values are sequences of pieces.  Literals of the source are one    *)
(* piece each; text supplied by a caller (a user command, a title, a body) *)
(* is a sequence of one-character pieces, so that lower(), the substring   *)
(* test and len() are computed on characters.                              *)
(* An optional value (Python None or a value) is None or Some(v).          *)
(* A call that may raise returns Ok(v) or Raise(type, message).            *)
(***************************************************************************)
EXTENDS Integers, Sequences, FiniteSets, TLC

VARIABLES
    jobs,           \* ReActTool.py: the global job store, job_id -> record
    tasks,          \* ReActTool.py: the _background_run task of each job
    page_jobs,      \* wordware_mcp.py: the global job store
    page_tasks,     \* wordware_mcp.py: the background_create_page task of each job
    ret,            \* the response the step just taken handed to its caller
    call,           \* the handle_user_request call in progress
    response_text,  \* the response body handed to process_response
    extracted       \* what process_response did with response_text

vars == <<jobs, tasks, page_jobs, page_tasks, ret, call, response_text, extracted>>

(***************************************************************************)
(* Bounds.                                                                 *)
(***************************************************************************)
\* Asynchronous jobs started in one run, over both job stores.
MaxJobs == 2
\* Lines of a response body handed to the extractor.
MaxLines == 2

JobIds == 1..MaxJobs

(***************************************************************************)
(* Python values.                                                          *)
(***************************************************************************)
None == <<>>
Some(v) == <<v>>

NoExc == [type |-> "", msg |-> <<>>]
Ok(v) == [ok |-> TRUE, val |-> v, exc |-> NoExc]
Raise(type, msg) == [ok |-> FALSE, val |-> <<>>, exc |-> [type |-> type, msg |-> msg]]

\* str(e) of a caught exception: its message, a text
ExcStr(e) == e.msg

RECURSIVE Join(_, _)
\* sep.join(parts), parts a sequence of texts
Join(parts, sep) ==
    IF Len(parts) = 0 THEN <<>>
    ELSE IF Len(parts) = 1 THEN parts[1]
    ELSE parts[1] \o sep \o Join(Tail(parts), sep)

(***************************************************************************)
(* JSON as json.loads sees it.  A decoded value is a record: kind is the   *)
(* Python type, str the text of a string, has the keys present in an       *)
(* object.  The lines below are the response lines the model draws from,   *)
(* with what json.loads makes of each.                                     *)
(***************************************************************************)
JAbsent == [kind |-> "NoneType", str |-> ""]
JStr(s) == [kind |-> "str", str |-> s]

\* a decoded value that is not a dict, seen where a nested dict is expected
JInnerOf(k, s) == [kind |-> k, str |-> s, has |-> {}, type |-> JAbsent, output |-> JAbsent]
\* a decoded nested dict {"type": ..., "output": ...}
JInnerObj(has, type, output) ==
    [kind |-> "dict", str |-> "", has |-> has, type |-> type, output |-> output]
JEmptyDict == JInnerObj({}, JAbsent, JAbsent)

\* a decoded line that is not a dict
JTopOf(k, s) == [kind |-> k, str |-> s, has |-> {}, type |-> JAbsent, value |-> JEmptyDict]
\* a decoded line {"type": ..., "value": ...}
JTopObj(has, type, value) ==
    [kind |-> "dict", str |-> "", has |-> has, type |-> type, value |-> value]

NL == "\n"

LineBlank == "  "
LineText == "data: not json"
LineNumber == "5"
LineList == "[1]"
LineNull == "null"
LineStatus == "{\"type\":\"status\",\"value\":5}"
LineChunkOnly == "{\"type\":\"chunk\"}"
LineValueString == "{\"type\":\"chunk\",\"value\":\"v\"}"
LineValueText == "{\"type\":\"chunk\",\"value\":{\"type\":\"text\",\"output\":\"Y\"}}"
LineEmptyOutput == "{\"type\":\"chunk\",\"value\":{\"type\":\"code\",\"output\":\"\"}}"
LineNoOutput == "{\"type\":\"chunk\",\"value\":{\"type\":\"code\"}}"
LineCodeX == "{\"type\":\"chunk\",\"value\":{\"type\":\"code\",\"output\":\"X\"}}"
LineCodeZ == "{\"type\":\"chunk\",\"value\":{\"type\":\"code\",\"output\":\"Z\"}}"

LineTokens ==
    { LineBlank, LineText, LineNumber, LineList, LineNull, LineStatus, LineChunkOnly,
      LineValueString, LineValueText, LineEmptyOutput, LineNoOutput, LineCodeX, LineCodeZ }

\* a line of a body: the empty line or one token
Lines == {<<>>} \cup { <<t>> : t \in LineTokens }

\* line.strip(): the empty text for a line of white space only
strip(line) == IF line = <<>> \/ line = <<LineBlank>> THEN <<>> ELSE line

\* json.loads(line): Ok(value), or JSONDecodeError
json_loads(line) ==
    CASE line = <<LineNumber>> -> Ok(JTopOf("int", ""))
      [] line = <<LineList>> -> Ok(JTopOf("list", ""))
      [] line = <<LineNull>> -> Ok(JTopOf("NoneType", ""))
      [] line = <<LineStatus>> ->
            Ok(JTopObj({"type", "value"}, JStr("status"), JInnerOf("int", "")))
      [] line = <<LineChunkOnly>> ->
            Ok(JTopObj({"type"}, JStr("chunk"), JEmptyDict))
      [] line = <<LineValueString>> ->
            Ok(JTopObj({"type", "value"}, JStr("chunk"), JInnerOf("str", "v")))
      [] line = <<LineValueText>> ->
            Ok(JTopObj({"type", "value"}, JStr("chunk"),
                       JInnerObj({"type", "output"}, JStr("text"), JStr("Y"))))
      [] line = <<LineEmptyOutput>> ->
            Ok(JTopObj({"type", "value"}, JStr("chunk"),
                       JInnerObj({"type", "output"}, JStr("code"), JStr(""))))
      [] line = <<LineNoOutput>> ->
            Ok(JTopObj({"type", "value"}, JStr("chunk"),
                       JInnerObj({"type"}, JStr("code"), JAbsent)))
      [] line = <<LineCodeX>> ->
            Ok(JTopObj({"type", "value"}, JStr("chunk"),
                       JInnerObj({"type", "output"}, JStr("code"), JStr("X"))))
      [] line = <<LineCodeZ>> ->
            Ok(JTopObj({"type", "value"}, JStr("chunk"),
                       JInnerObj({"type", "output"}, JStr("code"), JStr("Z"))))
      [] OTHER -> Raise("JSONDecodeError", <<"Expecting value">>)

\* the message of the AttributeError that x.get raises when x is not a dict
NoGetMsg(kind) ==
    CASE kind = "int" -> <<"'int' object has no attribute 'get'">>
      [] kind = "list" -> <<"'list' object has no attribute 'get'">>
      [] kind = "str" -> <<"'str' object has no attribute 'get'">>
      [] OTHER -> <<"'NoneType' object has no attribute 'get'">>

\* d.get(key, default): AttributeError when d is not a dict
dict_get(d, key, default) ==
    IF d.kind # "dict" THEN Raise("AttributeError", NoGetMsg(d.kind))
    ELSE IF key \in d.has THEN Ok(d[key])
    ELSE Ok(default)

\* bool(v) of a decoded scalar
truthy(v) ==
    CASE v.kind = "str" -> v.str # ""
      [] v.kind = "int" -> TRUE
      [] OTHER -> FALSE

RECURSIVE split(_, _)
\* text.split(sep) as a sequence of lines
split(text, sep) ==
    IF \A i \in 1..Len(text) : text[i] # sep THEN <<text>>
    ELSE LET i == CHOOSE k \in 1..Len(text) :
                      text[k] = sep /\ \A m \in 1..(k - 1) : text[m] # sep
         IN <<SubSeq(text, 1, i - 1)>> \o split(SubSeq(text, i + 1, Len(text)), sep)

NoOutputFound == <<"No output found">>
NoPageUrlFound == <<"No Notion page URL found in response">>

\* the condition of process_response on one decoded chunk: Ok(TRUE) when the
\* chunk carries the output, Ok(FALSE) when it does not, or the AttributeError
chunk_matches(chunk) ==
    LET t == dict_get(chunk, "type", JAbsent) IN
    IF ~t.ok THEN t
    ELSE IF ~(t.val.kind = "str" /\ t.val.str = "chunk") THEN Ok(FALSE)
    ELSE LET v == dict_get(chunk, "value", JEmptyDict)
             vt == dict_get(v.val, "type", JAbsent)
             vo == dict_get(v.val, "output", JAbsent)
         IN IF ~vt.ok THEN vt
            ELSE IF ~(vt.val.kind = "str" /\ vt.val.str = "code") THEN Ok(FALSE)
            ELSE Ok(truthy(vo.val))

RECURSIVE scan_lines(_, _, _)
\* the for loop over the lines, from line i: the output of the first line that
\* matches, the sentinel after the last line, or the AttributeError of a line
scan_lines(lines, i, sentinel) ==
    IF i > Len(lines) THEN Ok(sentinel)
    ELSE IF strip(lines[i]) = <<>> THEN scan_lines(lines, i + 1, sentinel)
    ELSE LET chunk == json_loads(lines[i]) IN
         IF ~chunk.ok THEN scan_lines(lines, i + 1, sentinel)
         ELSE LET m == chunk_matches(chunk.val) IN
              IF ~m.ok THEN m
              ELSE IF m.val THEN Ok(<<chunk.val.value.output.str>>)
              ELSE scan_lines(lines, i + 1, sentinel)

\* DynamicWordwareTool.process_response
process_response(text) == scan_lines(split(text, NL), 1, NoOutputFound)

\* WordwareAPI._process_streaming_response
process_streaming_response(text) == scan_lines(split(text, NL), 1, NoPageUrlFound)

(***************************************************************************)
(* Python dicts and keyword arguments: a sequence of [k, v] pairs in       *)
(* insertion order.  A value v is a str (text) or a dict (items).          *)
(***************************************************************************)
PyStr(text) == [kind |-> "str", text |-> text, items |-> <<>>]
PyDict(items) == [kind |-> "dict", text |-> <<>>, items |-> items]
PyNone == [kind |-> "NoneType", text |-> <<>>, items |-> <<>>]
KV(k, v) == [k |-> k, v |-> v]

Keys(d) == { d[i].k : i \in 1..Len(d) }
HasKey(d, key) == key \in Keys(d)
Lookup(d, key) == d[CHOOSE i \in 1..Len(d) : d[i].k = key].v

\* inputs.get(key) / inputs.get(key, default) on a dict of keyword arguments
kwargs_get(d, key, default) == IF HasKey(d, key) THEN Lookup(d, key) ELSE default

\* v.get(key, default) on a value: AttributeError when v is not a dict
value_get(v, key, default) ==
    IF v.kind # "dict" THEN Raise("AttributeError", NoGetMsg(v.kind))
    ELSE Ok(kwargs_get(v.items, key, default))

\* bool(value)
value_truthy(v) ==
    CASE v.kind = "str" -> v.text # <<>>
      [] v.kind = "dict" -> v.items # <<>>
      [] OTHER -> FALSE

\* len(value)
value_len(v) == IF v.kind = "dict" THEN Len(v.items) ELSE Len(v.text)

\* str(value): the text itself, or the repr of a dict of texts
value_str(v) ==
    CASE v.kind = "str" -> v.text
      [] v.kind = "dict" ->
            <<"{">> \o
            Join([i \in 1..Len(v.items) |->
                     <<"'", v.items[i].k, "': '">> \o v.items[i].v.text \o <<"'">>],
                 <<", ">>)
            \o <<"}">>
      [] OTHER -> <<"None">>

(***************************************************************************)
(* Characters: str.lower() and the substring test.                         *)
(***************************************************************************)
UpperCase == <<"A", "B", "C", "D", "E", "F", "G", "H", "I", "J", "K", "L", "M",
               "N", "O", "P", "Q", "R", "S", "T", "U", "V", "W", "X", "Y", "Z">>
LowerCase == <<"a", "b", "c", "d", "e", "f", "g", "h", "i", "j", "k", "l", "m",
               "n", "o", "p", "q", "r", "s", "t", "u", "v", "w", "x", "y", "z">>

lower_char(c) ==
    IF \E i \in 1..26 : UpperCase[i] = c
    THEN LowerCase[CHOOSE i \in 1..26 : UpperCase[i] = c]
    ELSE c

\* text.lower()
lower(text) == [i \in 1..Len(text) |-> lower_char(text[i])]

\* pattern in text
contains(text, pattern) ==
    \E i \in 0..(Len(text) - Len(pattern)) :
        SubSeq(text, i + 1, i + Len(pattern)) = pattern

MultiStep == <<"m", "u", "l", "t", "i", "-", "s", "t", "e", "p">>

(***************************************************************************)
(* tools.py: the payload templates.  A template is a tree: a str node is a *)
(* sequence of parts, each a literal or a {key} placeholder; a dict node   *)
(* is a sequence of [k, v] pairs.  A rendered str node has literal parts   *)
(* only; a str node returned unrendered keeps its placeholder parts.       *)
(***************************************************************************)
Lit(s) == [ph |-> FALSE, key |-> "", src |-> s]
Ph(key, src) == [ph |-> TRUE, key |-> key, src |-> src]
TStr(parts) == [tag |-> "str", parts |-> parts, items |-> <<>>]
TDict(items) == [tag |-> "dict", parts |-> <<>>, items |-> items]

Version == TStr(<<Lit("^1.0")>>)

TOOL_CONFIG ==
    [ notion_page |->
        [ payload_template |->
              TDict(<< KV("inputs", TDict(<< KV("title", TStr(<<Ph("title", "{title}")>>)),
                                             KV("body", TStr(<<Ph("body", "{body}")>>)) >>)),
                       KV("version", Version) >>),
          async |-> TRUE ],
      google_search |->
        [ payload_template |->
              TDict(<< KV("inputs", TDict(<< KV("query", TStr(<<Ph("query", "{query}")>>)) >>)),
                       KV("version", Version) >>),
          async |-> TRUE ],
      wikipedia_lookup |->
        [ payload_template |->
              TDict(<< KV("inputs", TDict(<< KV("term", TStr(<<Ph("term", "{term}")>>)) >>)),
                       KV("version", Version) >>),
          async |-> TRUE ],
      google_news |->
        [ payload_template |->
              TDict(<< KV("inputs", TDict(<< KV("news", TStr(<<Ph("news", "{news}")>>)) >>)),
                       KV("version", Version) >>),
          async |-> TRUE ] ]

\* DynamicWordwareTool.__init__ for every entry of TOOL_CONFIG
dynamic_tools ==
    [ name \in DOMAIN TOOL_CONFIG |->
        [ payload_template |-> TOOL_CONFIG[name].payload_template,
          use_async |-> TOOL_CONFIG[name].async ] ]

\* template.format(**context): the text with every placeholder replaced, or
\* KeyError when a placeholder's key is not in the context
str_format(parts, context) ==
    IF \E i \in 1..Len(parts) : parts[i].ph /\ ~HasKey(context, parts[i].key)
    THEN Raise("KeyError", <<"'", (parts[CHOOSE i \in 1..Len(parts) :
                                      parts[i].ph /\ ~HasKey(context, parts[i].key)]).key, "'">>)
    ELSE Ok([i \in 1..Len(parts) |->
                IF parts[i].ph THEN value_str(Lookup(context, parts[i].key))
                ELSE <<parts[i].src>>])

RECURSIVE flatten(_)
\* the pieces of a sequence of texts, in order
flatten(texts) == IF texts = <<>> THEN <<>> ELSE Head(texts) \o flatten(Tail(texts))

RECURSIVE render_template(_, _)
\* render_template(template, context)
render_template(template, context) ==
    CASE template.tag = "str" ->
            LET r == str_format(template.parts, context) IN
            IF r.ok
            THEN LET text == flatten(r.val) IN TStr([i \in 1..Len(text) |-> Lit(text[i])])
            ELSE template
      [] template.tag = "dict" ->
            TDict([i \in 1..Len(template.items) |->
                      KV(template.items[i].k, render_template(template.items[i].v, context))])
      [] OTHER -> template

\* DynamicWordwareTool.render_payload
render_payload(tool, kwargs) == Ok(render_template(dynamic_tools[tool].payload_template, kwargs))

(***************************************************************************)
(* The remote API: what one POST comes back with.                          *)
(***************************************************************************)
Transport == [kind |-> "transport", status |-> 0, text |-> <<>>]
Response(status, text) == [kind |-> "response", status |-> status, text |-> text]

ConnectError == [type |-> "ConnectError", msg |-> <<"All connection attempts failed">>]

BodyOutput == <<LineStatus, NL, LineCodeX, NL, LineCodeZ>>
BodyNoOutput == <<LineText, NL>>
BodyList == <<LineList, NL, LineCodeX>>
BodyServerError == <<"Internal Server Error">>

RemoteOutcomes ==
    { Transport, Response(500, BodyServerError),
      Response(200, BodyOutput), Response(200, BodyNoOutput), Response(200, BodyList),
      Response(201, BodyOutput) }

\* str(response.status_code)
status_str(status) ==
    IF status = 200 THEN "200" ELSE IF status = 201 THEN "201" ELSE "500"

\* response.raise_for_status() raises: the status is a 4xx or a 5xx
raises_for_status(status) == status >= 400

\* the transport exception leaving call_api instead of becoming its result
call_api_propagating(outcome) ==
    IF outcome.kind = "transport" THEN [ok |-> FALSE, val |-> <<>>, exc |-> ConnectError]
    ELSE IF outcome.status # 200
    THEN Ok(<<"API call failed with status ", status_str(outcome.status), ": ">> \o outcome.text)
    ELSE LET r == process_response(outcome.text) IN
         IF r.ok THEN r ELSE Ok(<<"API call failed with error: ">> \o ExcStr(r.exc))

\* DynamicWordwareTool.call_api from the moment the POST comes back
call_api(outcome) ==
    IF outcome.kind = "transport"
    THEN Ok(<<"API call failed with error: ">> \o ExcStr(ConnectError))
    ELSE IF outcome.status # 200
    THEN Ok(<<"API call failed with status ", status_str(outcome.status), ": ">> \o outcome.text)
    ELSE LET r == process_response(outcome.text) IN
         IF r.ok THEN r ELSE Ok(<<"API call failed with error: ">> \o ExcStr(r.exc))

\* DynamicWordwareTool.run from the moment the POST comes back
run(outcome) ==
    LET r == call_api(outcome) IN
    IF r.ok THEN r ELSE Ok(<<"Tool run failed: ">> \o ExcStr(r.exc))

\* WordwareAPI.make_request from the moment the POST comes back
make_request(outcome) ==
    IF outcome.kind = "transport" THEN [ok |-> FALSE, val |-> <<>>, exc |-> ConnectError]
    ELSE IF raises_for_status(outcome.status)
    THEN Raise("HTTPStatusError", <<"Server error '", status_str(outcome.status), "' for url">>)
    ELSE process_streaming_response(outcome.text)

(***************************************************************************)
(* The job stores and the asynchronous path.                               *)
(***************************************************************************)
\* a new job written as if its task had already started
NewJob_started == [status |-> "processing", result |-> None, error |-> None]

NewJob == [status |-> "pending", result |-> None, error |-> None]

\* str(uuid.uuid4()): an id no earlier call drew
uuid4 == Cardinality(DOMAIN jobs) + Cardinality(DOMAIN page_jobs) + 1

NoResponse == [op |-> "none", id |-> 0, val |-> [none |-> TRUE]]
Returned(op, id, val) == [op |-> op, id |-> id, val |-> val]

InvalidJobID == [error |-> "Invalid job ID"]
MissingParameter == [error |-> "Please provide at least one parameter (title or body)"]

\* the ids a status poll may name: every job id and one that is never drawn
PollIds == 0..MaxJobs

TextT == <<"T">>
TextShort == <<"s", "h", "o", "r", "t">>
TextCats == <<"c", "a", "t", "s">>

\* keyword arguments naming every placeholder of a tool's template
MatchingKwargs(tool) ==
    CASE tool = "notion_page" -> <<KV("title", PyStr(TextT)), KV("body", PyStr(TextShort))>>
      [] tool = "google_search" -> <<KV("query", PyStr(TextCats))>>
      [] tool = "wikipedia_lookup" -> <<KV("term", PyStr(TextCats))>>
      [] OTHER -> <<KV("news", PyStr(TextCats))>>

\* the keyword arguments run_async is called with
AsyncKwargs(tool) == { <<>>, MatchingKwargs(tool) }

\* the title and body arguments of create_notion_page_async
PageArgs == { PyNone, PyStr(<<>>), PyStr(TextT) }

\* value or ""
or_empty(v) == IF value_truthy(v) THEN v ELSE PyStr(<<>>)

\* the success path also writing an empty error text
background_run_settle_both(job, r) ==
    IF r.ok THEN [job EXCEPT !.status = "complete", !.result = Some(r.val), !.error = Some(<<>>)]
    ELSE [job EXCEPT !.status = "error", !.error = Some(ExcStr(r.exc))]

\* the success path storing the result without marking the job complete
background_run_settle_unmarked(job, r) ==
    IF r.ok THEN [job EXCEPT !.result = Some(r.val)]
    ELSE [job EXCEPT !.status = "error", !.error = Some(ExcStr(r.exc))]

\* _background_run after its work ended: lines 155-156, or the handler 157-159
background_run_settle(job, r) ==
    IF r.ok THEN [job EXCEPT !.status = "complete", !.result = Some(r.val)]
    ELSE [job EXCEPT !.status = "error", !.error = Some(ExcStr(r.exc))]

\* the handler putting a failed job back to pending
background_create_page_settle_requeue(job, r) ==
    IF r.ok THEN [job EXCEPT !.status = "complete", !.result = Some(r.val)]
    ELSE [job EXCEPT !.status = "pending", !.error = Some(ExcStr(r.exc))]

\* background_create_page after its work ended: lines 143-144, or the handler 145-147
background_create_page_settle(job, r) ==
    IF r.ok THEN [job EXCEPT !.status = "complete", !.result = Some(r.val)]
    ELSE [job EXCEPT !.status = "error", !.error = Some(ExcStr(r.exc))]

\* get_dynamic_job_status
get_dynamic_job_status(store, job_id) ==
    IF job_id \notin DOMAIN store THEN InvalidJobID ELSE store[job_id]

\* a lookup that answers an unknown id with a default job
get_job_status_default(store, job_id) ==
    IF job_id \notin DOMAIN store THEN [status |-> "pending", result |-> None, error |-> None]
    ELSE store[job_id]

\* get_job_status
get_job_status(store, job_id) ==
    IF job_id \notin DOMAIN store THEN InvalidJobID ELSE store[job_id]

\* the POST of a task has not come back
NoOutcome == [kind |-> "none", status |-> 0, text |-> <<>>]

\* a task suspended in the POST: it does not read its arguments again
AwaitingTask == [pc |-> "awaiting", tool |-> "", kwargs |-> <<>>, outcome |-> NoOutcome]
AwaitingPageTask ==
    [pc |-> "awaiting", title |-> PyNone, body |-> PyNone, outcome |-> NoOutcome]

\* a task that ran to its end: the coroutine and its arguments are gone; outcome
\* records what its POST came back with
DoneTask == [pc |-> "done", tool |-> "", kwargs |-> <<>>, outcome |-> NoOutcome]
DonePageTask == [pc |-> "done", title |-> PyNone, body |-> PyNone, outcome |-> NoOutcome]

\* DynamicWordwareTool.run_async: store the job, schedule the task, return
RunAsync(tool, kwargs) ==
    LET job_id == uuid4 IN
    /\ job_id <= MaxJobs
    /\ jobs' = (job_id :> NewJob) @@ jobs
    /\ tasks' = (job_id :> [pc |-> "scheduled", tool |-> tool, kwargs |-> kwargs,
                             outcome |-> NoOutcome]) @@ tasks
    /\ ret' = Returned("run_async", job_id, [job_id |-> job_id, status |-> "pending"])
    /\ UNCHANGED <<page_jobs, page_tasks, call, response_text, extracted>>

\* _background_run from its start to the await of the POST
BackgroundRunStart(j) ==
    /\ j \in DOMAIN tasks
    /\ tasks[j].pc = "scheduled"
    /\ LET processing == [jobs[j] EXCEPT !.status = "processing"]
           payload == render_payload(tasks[j].tool, tasks[j].kwargs)
       IN IF payload.ok
          THEN /\ jobs' = [jobs EXCEPT ![j] = processing]
               /\ tasks' = [tasks EXCEPT ![j] = AwaitingTask]
          ELSE /\ jobs' = [jobs EXCEPT ![j] = background_run_settle(processing, payload)]
               /\ tasks' = [tasks EXCEPT ![j] = DoneTask]
    /\ ret' = NoResponse
    /\ UNCHANGED <<page_jobs, page_tasks, call, response_text, extracted>>

\* the result written to every job whose POST is in flight, not to job j alone
BackgroundRunResume_shared(j, outcome) ==
    /\ j \in DOMAIN tasks
    /\ tasks[j].pc = "awaiting"
    /\ jobs' = [k \in DOMAIN jobs |->
                   IF jobs[k].status = "processing"
                   THEN background_run_settle(jobs[k], call_api(outcome))
                   ELSE jobs[k]]
    /\ tasks' = [tasks EXCEPT ![j] = [DoneTask EXCEPT !.outcome = outcome]]
    /\ ret' = NoResponse
    /\ UNCHANGED <<page_jobs, page_tasks, call, response_text, extracted>>

\* _background_run from the moment the POST comes back to its end
BackgroundRunResume(j, outcome) ==
    /\ j \in DOMAIN tasks
    /\ tasks[j].pc = "awaiting"
    /\ jobs' = [jobs EXCEPT ![j] = background_run_settle(@, call_api(outcome))]
    /\ tasks' = [tasks EXCEPT ![j] = [DoneTask EXCEPT !.outcome = outcome]]
    /\ ret' = NoResponse
    /\ UNCHANGED <<page_jobs, page_tasks, call, response_text, extracted>>

\* get_dynamic_job_status as a tool call
GetDynamicJobStatus(job_id) ==
    /\ ret' = Returned("get_dynamic_job_status", job_id, get_dynamic_job_status(jobs, job_id))
    /\ UNCHANGED <<jobs, tasks, page_jobs, page_tasks, call, response_text, extracted>>

\* create_notion_page_async: reject, or store the job, schedule the task, return
CreateNotionPageAsync(title, body) ==
    IF ~(value_truthy(title) \/ value_truthy(body))
    THEN /\ ret' = Returned("create_notion_page_async", 0, MissingParameter)
         /\ UNCHANGED <<jobs, tasks, page_jobs, page_tasks, call, response_text, extracted>>
    ELSE LET job_id == uuid4 IN
         /\ job_id <= MaxJobs
         /\ page_jobs' = (job_id :> NewJob) @@ page_jobs
         /\ page_tasks' = (job_id :> [pc |-> "scheduled", title |-> or_empty(title),
                                      body |-> or_empty(body),
                                      outcome |-> NoOutcome]) @@ page_tasks
         /\ ret' = Returned("create_notion_page_async", job_id,
                            [job_id |-> job_id, status |-> "pending"])
         /\ UNCHANGED <<jobs, tasks, call, response_text, extracted>>

\* background_create_page from its start to the await of the POST
BackgroundCreatePageStart(j) ==
    /\ j \in DOMAIN page_tasks
    /\ page_tasks[j].pc = "scheduled"
    /\ page_jobs' = [page_jobs EXCEPT ![j].status = "processing"]
    /\ page_tasks' = [page_tasks EXCEPT ![j] = AwaitingPageTask]
    /\ ret' = NoResponse
    /\ UNCHANGED <<jobs, tasks, call, response_text, extracted>>

\* background_create_page from the moment the POST comes back to its end
BackgroundCreatePageResume(j, outcome) ==
    /\ j \in DOMAIN page_tasks
    /\ page_tasks[j].pc = "awaiting"
    /\ page_jobs' = [page_jobs EXCEPT ![j] = background_create_page_settle(@, make_request(outcome))]
    /\ page_tasks' = [page_tasks EXCEPT ![j] = [DonePageTask EXCEPT !.outcome = outcome]]
    /\ ret' = NoResponse
    /\ UNCHANGED <<jobs, tasks, call, response_text, extracted>>

\* get_job_status as a tool call
GetJobStatus(job_id) ==
    /\ ret' = Returned("get_job_status", job_id, get_job_status(page_jobs, job_id))
    /\ UNCHANGED <<jobs, tasks, page_jobs, page_tasks, call, response_text, extracted>>

(***************************************************************************)
(* The job servers: asynchronous invocations, background tasks and polls,  *)
(* interleaved at the awaits.                                              *)
(***************************************************************************)
IdleCall ==
    [ pc |-> "idle", user_command |-> <<>>, tool |-> "", inputs |-> <<>>,
      processed_inputs |-> <<>>, payload |-> None, initial_result |-> None,
      react |-> None, thought |-> 0, result |-> None, exc |-> NoExc, runs |-> 0, posts |-> 0 ]

NotExtracted == [ok |-> FALSE, val |-> <<>>, exc |-> [type |-> "not run", msg |-> <<>>]]

Init ==
    /\ jobs = <<>>
    /\ tasks = <<>>
    /\ page_jobs = <<>>
    /\ page_tasks = <<>>
    /\ ret = NoResponse
    /\ call = IdleCall
    /\ response_text = <<>>
    /\ extracted = NotExtracted

\* asynchronous invocations and the steps of their background tasks
JobNext ==
    \/ \E tool \in DOMAIN dynamic_tools : \E kwargs \in AsyncKwargs(tool) : RunAsync(tool, kwargs)
    \/ \E j \in JobIds : BackgroundRunStart(j)
    \/ \E j \in JobIds : \E outcome \in RemoteOutcomes : BackgroundRunResume(j, outcome)
    \/ \E title \in PageArgs : \E body \in PageArgs : CreateNotionPageAsync(title, body)
    \/ \E j \in JobIds : BackgroundCreatePageStart(j)
    \/ \E j \in JobIds : \E outcome \in RemoteOutcomes : BackgroundCreatePageResume(j, outcome)

\* status polls
PollNext ==
    \/ \E job_id \in PollIds : GetDynamicJobStatus(job_id)
    \/ \E job_id \in PollIds : GetJobStatus(job_id)

Next == JobNext \/ PollNext

Spec == Init /\ [][Next]_vars

\* Every scheduled task is run and every POST comes back: asyncio runs each
\* ready task, and the remote call is assumed to return or fail.
BackgroundStep ==
    \E j \in JobIds :
        \/ BackgroundRunStart(j)
        \/ BackgroundCreatePageStart(j)
        \/ \E outcome \in RemoteOutcomes : BackgroundRunResume(j, outcome)
        \/ \E outcome \in RemoteOutcomes : BackgroundCreatePageResume(j, outcome)

Fairness == WF_vars(BackgroundStep)

\* The job servers with no poll in the run: a poll reads the store and
\* changes neither a job nor a task.
FairSpec == Init /\ [][JobNext]_vars /\ Fairness

(***************************************************************************)
(* handle_user_request and react_agent.                                    *)
(***************************************************************************)
ExampleTitle == <<"e", "x", "a", "m", "p", "l", "e", " ", "t", "i", "t", "l", "e">>
ExampleBody == <<"e", "x", "a", "m", "p", "l", "e", " ", "b", "o", "d", "y">>
FinalizedSuffix == <<" [Finalized after multi-step processing]">>
NoResultFromTool == <<"No result from tool.">>

\* the message without the tool's name
not_available_anonymous(tool) == <<"Tool not available.">>

\* f"Tool '{tool}' not available."
not_available(tool) == <<"Tool '", tool, "' not available.">>

RECURSIVE query_parts(_, _)
\* the loop over inputs.items(): str(value) of every truthy value whose key is
\* not excluded, in argument order
query_parts(inputs, excluded) ==
    IF inputs = <<>> THEN <<>>
    ELSE LET rest == query_parts(Tail(inputs), excluded) IN
         IF value_truthy(Head(inputs).v) /\ Head(inputs).k \notin excluded
         THEN <<value_str(Head(inputs).v)>> \o rest
         ELSE rest

\* handle_user_request, lines 240-263: the processed inputs, or the fault
process_inputs(tool, inputs) ==
    CASE tool \in {"google_search", "wikipedia_lookup"} ->
            Ok(<<KV("query", PyStr(Join(query_parts(inputs, {}), <<" ">>)))>>)
      [] tool = "google_news" ->
            Ok(<<KV("news", PyStr(Join(query_parts(inputs, {"user_command", "tool"}), <<" ">>)))>>)
      [] tool = "notion_page" ->
            LET nested == kwargs_get(inputs, "inputs", PyNone)
                title == value_get(nested, "title", PyStr(ExampleTitle))
                body == value_get(nested, "body", PyStr(ExampleBody))
            IN IF ~title.ok THEN title
               ELSE IF ~body.ok THEN body
               ELSE Ok(<<KV("title", title.val), KV("body", body.val)>>)
      [] OTHER -> Ok(inputs)

\* the call react_agent(user_command, **processed_inputs, initial_result=...):
\* binding the keyword arguments to (user_command, title, body, initial_result)
react_agent_bind(processed_inputs) ==
    IF \E i \in 1..Len(processed_inputs) : processed_inputs[i].k \in {"user_command", "initial_result"}
    THEN Raise("TypeError", <<"react_agent() got multiple values for argument '",
                              (processed_inputs[CHOOSE i \in 1..Len(processed_inputs) :
                                   processed_inputs[i].k \in {"user_command", "initial_result"}]).k, "'">>)
    ELSE IF \E i \in 1..Len(processed_inputs) : processed_inputs[i].k \notin {"title", "body"}
    THEN Raise("TypeError", <<"react_agent() got an unexpected keyword argument '",
                              (processed_inputs[CHOOSE i \in 1..Len(processed_inputs) :
                                   processed_inputs[i].k \notin {"title", "body"}]).k, "'">>)
    ELSE IF ~(HasKey(processed_inputs, "title") /\ HasKey(processed_inputs, "body"))
    THEN Raise("TypeError", <<"react_agent() missing required positional arguments">>)
    ELSE Ok([title |-> Lookup(processed_inputs, "title"), body |-> Lookup(processed_inputs, "body")])

\* the thoughts react_agent prints, sleeping after each
Thoughts == 2

\* react_agent, lines 198-206: the final result
react_agent(user_command, title, body, initial_result) ==
    IF contains(lower(user_command), MultiStep) \/ value_len(body) > 100
    THEN initial_result \o FinalizedSuffix
    ELSE IF initial_result # <<>> THEN initial_result ELSE NoResultFromTool

\* handle_user_request, lines 272-278: the call once the tool returned
decide(c, initial_result) ==
    IF contains(lower(c.user_command), MultiStep)
    THEN LET bound == react_agent_bind(c.processed_inputs) IN
         IF ~bound.ok
         THEN [c EXCEPT !.pc = "raised", !.exc = bound.exc, !.initial_result = Some(initial_result)]
         ELSE [c EXCEPT !.pc = "react_sleep", !.thought = 1,
                        !.initial_result = Some(initial_result),
                        !.react = Some([user_command |-> c.user_command, title |-> bound.val.title,
                                        body |-> bound.val.body, initial_result |-> initial_result])]
    ELSE [c EXCEPT !.pc = "returned", !.initial_result = Some(initial_result),
                   !.result = Some(initial_result)]

CmdPlain == <<"d", "o", " ", "X">>
CmdMulti == <<"p", "l", "e", "a", "s", "e", " ", "m", "u", "l", "t", "i", "-", "s", "t", "e", "p", " ", "t", "h", "i", "s">>
CmdUpper == <<"M", "u", "l", "t", "i", "-", "S", "T", "E", "P">>
CmdNear == <<"m", "u", "l", "t", "i", " ", "s", "t", "e", "p">>
Commands == { CmdPlain, CmdMulti, CmdUpper, CmdNear }

ToolNames == DOMAIN dynamic_tools \cup {"nonexistent_tool"}

InputsNone == <<>>
InputsTerm == <<KV("term", PyStr(TextCats))>>
InputsPage == <<KV("inputs", PyDict(<<KV("title", PyStr(TextT)), KV("body", PyStr(TextShort))>>))>>
InputsPageEmpty == <<KV("inputs", PyDict(<<>>))>>
InputsMany == <<KV("q", PyStr(TextCats)), KV("skip", PyStr(<<>>)), KV("site", PyStr(TextT))>>
RawInputs == { InputsNone, InputsTerm, InputsPage, InputsPageEmpty, InputsMany }

\* handle_user_request honouring the async flag: a flagged tool goes through
\* run_async, which stores a job and returns its handle
HandleUserRequest_async(user_command, tool, inputs) ==
    /\ call.pc \in {"idle", "returned", "raised"}
    /\ LET c == [IdleCall EXCEPT !.user_command = user_command, !.tool = tool, !.inputs = inputs]
           processed == process_inputs(tool, inputs)
       IN IF tool \notin DOMAIN dynamic_tools
          THEN /\ call' = [c EXCEPT !.pc = "returned", !.result = Some(not_available(tool))]
               /\ UNCHANGED <<jobs, tasks>>
          ELSE IF ~processed.ok
          THEN /\ call' = [c EXCEPT !.pc = "raised", !.exc = processed.exc]
               /\ UNCHANGED <<jobs, tasks>>
          ELSE IF dynamic_tools[tool].use_async
          THEN LET job_id == uuid4 IN
               /\ job_id <= MaxJobs
               /\ jobs' = (job_id :> NewJob) @@ jobs
               /\ tasks' = (job_id :> [pc |-> "scheduled", tool |-> tool,
                                       kwargs |-> processed.val, outcome |-> NoOutcome]) @@ tasks
               /\ call' = [c EXCEPT !.pc = "returned", !.processed_inputs = processed.val,
                                    !.result = Some(<<"pending">>)]
          ELSE /\ call' = [c EXCEPT !.pc = "awaiting", !.processed_inputs = processed.val,
                                    !.runs = 1, !.posts = 1,
                                    !.payload = Some(render_payload(tool, processed.val).val)]
               /\ UNCHANGED <<jobs, tasks>>
    /\ UNCHANGED <<page_jobs, page_tasks, ret, response_text, extracted>>

\* handle_user_request from its start to the first await, or to its end
HandleUserRequest(user_command, tool, inputs) ==
    /\ call.pc \in {"idle", "returned", "raised"}
    /\ LET c == [IdleCall EXCEPT !.user_command = user_command, !.tool = tool, !.inputs = inputs] IN
       IF tool \notin DOMAIN dynamic_tools
       THEN call' = [c EXCEPT !.pc = "returned", !.result = Some(not_available(tool))]
       ELSE LET processed == process_inputs(tool, inputs) IN
            IF ~processed.ok
            THEN call' = [c EXCEPT !.pc = "raised", !.exc = processed.exc]
            ELSE LET payload == render_payload(tool, processed.val)
                     running == [c EXCEPT !.processed_inputs = processed.val, !.runs = 1]
                 IN IF payload.ok
                    THEN call' = [running EXCEPT !.pc = "awaiting", !.payload = Some(payload.val),
                                                 !.posts = 1]
                    ELSE call' = decide(running, <<"Tool run failed: ">> \o ExcStr(payload.exc))
    /\ UNCHANGED <<jobs, tasks, page_jobs, page_tasks, ret, response_text, extracted>>

\* handle_user_request from the moment the POST comes back to the next await, or to its end
HandleUserRequestResume(outcome) ==
    /\ call.pc = "awaiting"
    /\ call' = decide(call, run(outcome).val)
    /\ UNCHANGED <<jobs, tasks, page_jobs, page_tasks, ret, response_text, extracted>>

\* react_agent waking from the sleep after a thought that is not the last
ReactAgentThink ==
    /\ call.pc = "react_sleep"
    /\ call.thought < Thoughts
    /\ call' = [call EXCEPT !.thought = @ + 1]
    /\ UNCHANGED <<jobs, tasks, page_jobs, page_tasks, ret, response_text, extracted>>

\* react_agent waking from the last sleep: decide, return through handle_user_request
ReactAgentFinish ==
    /\ call.pc = "react_sleep"
    /\ call.thought = Thoughts
    /\ LET a == call.react[1] IN
       call' = [call EXCEPT !.pc = "returned",
                            !.result = Some(react_agent(a.user_command, a.title, a.body,
                                                        a.initial_result))]
    /\ UNCHANGED <<jobs, tasks, page_jobs, page_tasks, ret, response_text, extracted>>

DispatchNext ==
    \/ \E user_command \in Commands : \E tool \in ToolNames : \E inputs \in RawInputs :
           HandleUserRequest(user_command, tool, inputs)
    \/ \E outcome \in RemoteOutcomes : HandleUserRequestResume(outcome)
    \/ ReactAgentThink
    \/ ReactAgentFinish

\* The tool server serving handle_user_request calls, one at a time.
DispatchSpec == Init /\ [][DispatchNext]_vars

\* The tool server serving handle_user_request calls while a job that
\* run_async started, the first of the store, is in flight.
ServerNext ==
    \/ \E tool \in DOMAIN dynamic_tools : jobs = <<>> /\ RunAsync(tool, MatchingKwargs(tool))
    \/ \E j \in JobIds : BackgroundRunStart(j)
    \/ \E j \in JobIds : \E outcome \in RemoteOutcomes : BackgroundRunResume(j, outcome)
    \/ \E user_command \in Commands : \E tool \in ToolNames : \E inputs \in RawInputs :
           HandleUserRequest(user_command, tool, inputs)
    \/ \E outcome \in RemoteOutcomes : HandleUserRequestResume(outcome)
    \/ ReactAgentThink
    \/ ReactAgentFinish

ServerSpec == Init /\ [][ServerNext]_vars

(***************************************************************************)
(* The extractor on its own: every body of at most MaxLines lines.         *)
(***************************************************************************)
Bodies == UNION { { Join(ls, <<NL>>) : ls \in [1..n -> Lines] } : n \in 1..MaxLines }

InitExtract ==
    /\ jobs = <<>>
    /\ tasks = <<>>
    /\ page_jobs = <<>>
    /\ page_tasks = <<>>
    /\ ret = NoResponse
    /\ call = IdleCall
    /\ response_text \in Bodies
    /\ extracted = NotExtracted

\* process_response(response_text)
Extract ==
    /\ extracted = NotExtracted
    /\ extracted' = process_response(response_text)
    /\ UNCHANGED <<jobs, tasks, page_jobs, page_tasks, ret, call, response_text>>

ExtractNext == Extract

ExtractSpec == InitExtract /\ [][ExtractNext]_vars

(***************************************************************************)
(* Properties.                                                             *)
(***************************************************************************)
LegalMove(before, after) ==
    \/ after = before
    \/ before = "pending" /\ after = "processing"
    \/ before = "processing" /\ after \in {"complete", "error"}

LegalStep(store, store_next) ==
    /\ \A j \in DOMAIN store :
          j \in DOMAIN store_next /\ LegalMove(store[j].status, store_next[j].status)
    /\ \A j \in DOMAIN store_next \ DOMAIN store : store_next[j].status = "pending"

\* C1: in both job stores, whatever the interleaving of background tasks and
\* polls, every step leaves a job's status alone or moves it pending ->
\* processing, processing -> complete or processing -> error; a new job starts
\* pending, and a complete or error job never changes status again.
C1_StatusMonotonic ==
    [][LegalStep(jobs, jobs') /\ LegalStep(page_jobs, page_jobs')]_vars

\* a job of the template-driven store completed and a job of the page store failed
C1_Witness ==
    /\ \E j \in DOMAIN jobs : jobs[j].status = "complete"
    /\ \E k \in DOMAIN page_jobs : page_jobs[k].status = "error"

Consistent(job) ==
    /\ job.result # None => job.status = "complete"
    /\ job.error # None => job.status = "error"
    /\ ~(job.result # None /\ job.error # None)

\* C2: whatever a status poll can see, a job's result is set only when its
\* status is complete, its error only when its status is error, and never both.
C2_ResultErrorExclusive ==
    /\ \A j \in DOMAIN jobs : Consistent(get_dynamic_job_status(jobs, j))
    /\ \A k \in DOMAIN page_jobs : Consistent(get_job_status(page_jobs, k))

\* a job of the template-driven store holds a result while a job of the page
\* store holds an error and no result
C2_Witness ==
    /\ \E j \in DOMAIN jobs : jobs[j].result # None
    /\ \E k \in DOMAIN page_jobs : page_jobs[k].error # None /\ page_jobs[k].result = None

Settled(job) ==
    \/ job.status = "complete" /\ job.result # None
    \/ job.status = "error" /\ job.error # None

\* C3: under fair scheduling of the background tasks, with every POST coming
\* back, every job that was started is eventually reported by the status poll
\* as complete with its result set or as error with its error set.
C3_EventuallySettles ==
    \A j \in JobIds :
        /\ (j \in DOMAIN jobs) ~> (j \in DOMAIN jobs /\ Settled(get_dynamic_job_status(jobs, j)))
        /\ (j \in DOMAIN page_jobs) ~>
               (j \in DOMAIN page_jobs /\ Settled(get_job_status(page_jobs, j)))

\* every job that can be started was started, in both stores, and all have settled
C3_Witness ==
    /\ DOMAIN jobs # {} /\ DOMAIN page_jobs # {}
    /\ DOMAIN jobs \cup DOMAIN page_jobs = JobIds
    /\ \A j \in DOMAIN jobs : Settled(jobs[j]) /\ tasks[j].pc = "done"
    /\ \A k \in DOMAIN page_jobs : Settled(page_jobs[k]) /\ page_tasks[k].pc = "done"

StartedFresh(r, store, store_next, tasks_next) ==
    /\ r.val.status = "pending"
    /\ r.val.job_id \notin DOMAIN store
    /\ r.val.job_id \in DOMAIN store_next
    /\ store_next[r.val.job_id] = [status |-> "pending", result |-> None, error |-> None]
    /\ tasks_next[r.val.job_id].pc = "scheduled"

\* C4: the step in which an asynchronous invocation returns {job_id, status:
\* pending} puts a record under a job_id the store did not hold, with status
\* pending and neither result nor error, and leaves the job's background task
\* scheduled and not yet run: no POST was made and the record is untouched.
C4_AsyncReturnsPending ==
    [][ /\ (ret'.op = "run_async" /\ ret' # ret)
            => StartedFresh(ret', jobs, jobs', tasks')
        /\ (ret'.op = "create_notion_page_async" /\ ret' # ret /\ ret'.val # MissingParameter)
            => StartedFresh(ret', page_jobs, page_jobs', page_tasks') ]_vars

\* run_async has just returned a pending job while another job's POST is in flight
C4_Witness ==
    /\ ret.op = "run_async"
    /\ jobs[ret.val.job_id].status = "pending"
    /\ tasks[ret.val.job_id].pc = "scheduled"
    /\ \E k \in DOMAIN page_jobs : page_tasks[k].pc = "awaiting"

PollAnswer(r, store, store_next) ==
    /\ store_next = store
    /\ r.id \notin DOMAIN store => r.val = [error |-> "Invalid job ID"]
    /\ r.id \in DOMAIN store => r.val = store[r.id]

\* C5: a status poll changes neither job store; for an id the store does not
\* hold it returns {error: "Invalid job ID"} and creates no record, and for an
\* id the store holds it returns that job's record.
C5_PollUnknownId ==
    [][ /\ ret'.op \in {"get_dynamic_job_status", "get_job_status"}
            => jobs' = jobs /\ page_jobs' = page_jobs
        /\ ret'.op = "get_dynamic_job_status" => PollAnswer(ret', jobs, jobs')
        /\ ret'.op = "get_job_status" => PollAnswer(ret', page_jobs, page_jobs') ]_vars

\* a poll of the page store has just answered "Invalid job ID" for an id held
\* by the other store only
C5_Witness ==
    /\ ret.op = "get_job_status"
    /\ ret.val = InvalidJobID
    /\ ret.id \in DOMAIN jobs
    /\ DOMAIN page_jobs # {}

CallEnded == call.pc \in {"returned", "raised"}
Registered(tool) == tool \in DOMAIN TOOL_CONFIG
AsksMultiStep(user_command) == contains(lower(user_command), MultiStep)

\* C6: a handle_user_request call naming a tool that is not in the registry
\* returns "Tool '<name>' not available." whatever the command and arguments:
\* it raises nothing, invokes no tool, posts nothing and never reaches react_agent.
C6_UnknownToolRejected ==
    (call.pc # "idle" /\ ~Registered(call.tool)) =>
        /\ call.pc = "returned"
        /\ call.result = Some(<<"Tool '", call.tool, "' not available.">>)
        /\ call.runs = 0
        /\ call.posts = 0
        /\ call.react = None

\* a multi-step command with arguments, naming an unregistered tool, has returned
C6_Witness ==
    /\ call.pc = "returned"
    /\ ~Registered(call.tool)
    /\ AsksMultiStep(call.user_command)
    /\ call.inputs # <<>>

\* C7: a call naming a registered tool, with a command that does not contain
\* "multi-step" in lower case, ends by returning exactly the text of its one
\* tool invocation, without react_agent.
C7_DirectResultUnchanged ==
    (CallEnded /\ Registered(call.tool) /\ ~AsksMultiStep(call.user_command)) =>
        /\ call.pc = "returned"
        /\ call.runs = 1
        /\ call.initial_result # None
        /\ call.result = call.initial_result
        /\ call.react = None

\* C8: a call naming a registered tool, with a command that contains
\* "multi-step" in lower case, hands the command, the normalized arguments and
\* the initial result to react_agent and returns the initial result followed by
\* " [Finalized after multi-step processing]".
C8_MultiStepFinalized ==
    (CallEnded /\ Registered(call.tool) /\ AsksMultiStep(call.user_command)) =>
        /\ call.pc = "returned"
        /\ call.initial_result # None
        /\ call.react # None
        /\ call.react[1].user_command = call.user_command
        /\ call.react[1].initial_result = call.initial_result[1]
        /\ <<KV("title", call.react[1].title), KV("body", call.react[1].body)>> = call.processed_inputs
        /\ call.result = Some(call.initial_result[1] \o <<" [Finalized after multi-step processing]">>)

\* C9: no handle_user_request call ends by raising: whatever the tool name, the
\* command, the arguments and the remote outcome, it ends by returning a text.
C9_DispatchNeverFaults ==
    CallEnded => call.pc = "returned" /\ call.result # None

LineQualifies(line) ==
    LET d == json_loads(line) IN
    /\ d.ok
    /\ d.val.kind = "dict"
    /\ "type" \in d.val.has /\ d.val.type = JStr("chunk")
    /\ "value" \in d.val.has /\ d.val.value.kind = "dict"
    /\ "type" \in d.val.value.has /\ d.val.value.type = JStr("code")
    /\ "output" \in d.val.value.has
    /\ d.val.value.output.kind = "str" /\ d.val.value.output.str # ""

FirstOutput(lines) ==
    IF \E i \in 1..Len(lines) : LineQualifies(lines[i])
    THEN LET i == CHOOSE k \in 1..Len(lines) :
                      LineQualifies(lines[k]) /\ \A m \in 1..(k - 1) : ~LineQualifies(lines[m])
         IN <<json_loads(lines[i]).val.value.output.str>>
    ELSE <<"No output found">>

\* C10: for every response body, process_response returns the output of the
\* first line that decodes to {type: chunk, value: {type: code, output:
\* nonempty}}, or "No output found" when there is none; every other line is
\* skipped, and no line makes it raise.
C10_ExtractFirstMatch ==
    extracted # NotExtracted =>
        /\ extracted.ok
        /\ extracted.val = FirstOutput(split(response_text, NL))

\* the task of job j took a step
Stepped(ts, ts_next, j) == j \in DOMAIN ts /\ ts_next[j].pc # ts[j].pc

\* every record of the store but that of job j is as it was
OthersKept(store, store_next, j) ==
    \A k \in DOMAIN store \ {j} : k \in DOMAIN store_next /\ store_next[k] = store[k]

\* C11: with several jobs in flight, a step of the background task of job j
\* changes the record of job j only, a record changes only in a step of its own
\* task, no record ever leaves a store, and a status poll changes no job and no task.
C11_OnlyOwnRecord ==
    [][ /\ DOMAIN jobs \subseteq DOMAIN jobs'
        /\ DOMAIN page_jobs \subseteq DOMAIN page_jobs'
        /\ \A j \in JobIds :
              /\ Stepped(tasks, tasks', j) =>
                     OthersKept(jobs, jobs', j) /\ OthersKept(page_jobs, page_jobs', 0)
              /\ Stepped(page_tasks, page_tasks', j) =>
                     OthersKept(page_jobs, page_jobs', j) /\ OthersKept(jobs, jobs', 0)
              /\ (j \in DOMAIN jobs /\ jobs'[j] # jobs[j]) => Stepped(tasks, tasks', j)
              /\ (j \in DOMAIN page_jobs /\ page_jobs'[j] # page_jobs[j])
                     => Stepped(page_tasks, page_tasks', j)
        /\ ret'.op \in {"get_dynamic_job_status", "get_job_status"} =>
              /\ jobs' = jobs /\ tasks' = tasks
              /\ page_jobs' = page_jobs /\ page_tasks' = page_tasks ]_vars

\* one job of the template-driven store has settled while another's POST is in flight
C11_Witness ==
    \E j \in DOMAIN jobs : \E k \in DOMAIN jobs :
        /\ j # k
        /\ tasks[j].pc = "done" /\ jobs[j].status = "complete"
        /\ tasks[k].pc = "awaiting" /\ jobs[k].status = "processing"

\* the POST of a finished task failed by transport error or came back non-200
RemoteFailure(task) ==
    /\ task.pc = "done"
    /\ \/ task.outcome.kind = "transport"
       \/ task.outcome.kind = "response" /\ task.outcome.status # 200

\* the POST of a finished task failed by transport error or came back 4xx or 5xx
RemoteError(task) ==
    /\ task.pc = "done"
    /\ \/ task.outcome.kind = "transport"
       \/ task.outcome.kind = "response" /\ task.outcome.status >= 400

\* the text is the message call_api builds for this outcome of the POST
IsErrorMessage(text, outcome) ==
    /\ Len(text) >= 2
    /\ IF outcome.kind = "transport"
       THEN text[1] = "API call failed with error: "
       ELSE /\ text[1] = "API call failed with status "
            /\ text[2] = status_str(outcome.status)
            /\ SubSeq(text, Len(text) - Len(outcome.text) + 1, Len(text)) = outcome.text

\* the template-driven half of C12: a remote failure settles complete with the
\* message as result, and status error is never the outcome of a remote call
DynamicFailureComplete ==
    \A j \in DOMAIN jobs :
        /\ RemoteFailure(tasks[j]) =>
              /\ jobs[j].status = "complete"
              /\ jobs[j].error = None
              /\ jobs[j].result # None
              /\ IsErrorMessage(jobs[j].result[1], tasks[j].outcome)
        /\ jobs[j].status = "error" => tasks[j].outcome = NoOutcome

RECURSIVE PlaceholderKeys(_)
\* the keys of the placeholders a template, or a rendered payload, still holds
PlaceholderKeys(template) ==
    IF template.tag = "str"
    THEN { template.parts[i].key : i \in { n \in 1..Len(template.parts) : template.parts[n].ph } }
    ELSE UNION { PlaceholderKeys(template.items[i].v) : i \in 1..Len(template.items) }

\* C13: for each registered tool, the normalized arguments dispatch builds hold
\* every placeholder key of the tool's payload template, and the body posted to
\* the remote API holds no unsubstituted placeholder.
C13_PayloadFullyRendered ==
    call.payload # None =>
        /\ PlaceholderKeys(dynamic_tools[call.tool].payload_template)
               \subseteq Keys(call.processed_inputs)
        /\ PlaceholderKeys(call.payload[1]) = {}

\* C14: dispatch runs the selected tool on the synchronous path whatever its
\* async flag says: no step of a dispatch call creates a job or changes a job
\* record or a background task, in either store, and a call that runs a tool
\* makes the POST itself.
C14_DispatchKeepsJobStore ==
    [][ call' # call =>
            /\ jobs' = jobs /\ tasks' = tasks
            /\ page_jobs' = page_jobs /\ page_tasks' = page_tasks
            /\ call'.runs = 1 => call'.posts = 1 ]_vars

\* a dispatch call to a tool flagged async made its POST and returned while a
\* job of run_async was in flight
C14_Witness ==
    /\ call.pc = "returned"
    /\ call.tool \in DOMAIN dynamic_tools
    /\ dynamic_tools[call.tool].use_async
    /\ call.posts = 1
    /\ \E j \in DOMAIN jobs : jobs[j].status = "processing"

====
